---- MODULE Spec2Model ----
(***************************************************************************)
(* Model of BabyMonitorApp (src/main.py): the camera worker, the inference *)
(* worker with its stability window, and cleanup.                          *)
(*                                                                         *)
(* Frames are numbered by capture order (1, 2, ...); 0 stands for "no      *)
(* frame held".  Areas are in hundredths (0.15 is 15).  The sentinel raw   *)
(* label is the string "None", as in the source.                           *)
(***************************************************************************)
EXTENDS Integers, Sequences, FiniteSets

VARIABLES
    running,          \* self.running
    frame_queue,      \* self.frame_queue, a Queue(maxsize=1): sequence of frames
    active_state,     \* self.active_state
    window,           \* self.window, a deque(maxlen=window_size)
    window_size,      \* WINDOW_SIZE of this run
    cap_opened,       \* self.cap.isOpened()
    recognizer_open,  \* self.recognizer has not been closed
    http_open,        \* self.http_client has not been closed
    main_pc,          \* position of the main thread in run() / cleanup()
    cam_pc,           \* position of CamThread in _camera_worker
    cam_frame,        \* _camera_worker's local frame
    cam_ret,          \* _camera_worker's local ret of the last cap.read()
    cam_discard,      \* outcome of lines 146-148 in the camera's current cycle
    inf_pc,           \* position of AIThread in _inference_worker
    inf_frame,        \* _inference_worker's local frame
    inf_error,        \* the last recognize() call raised
    stable_now,       \* _inference_worker's local stable_now of the last cycle
    dispatched,       \* threads started by the last inference cycle
    captured,         \* history: number of frames the camera delivered
    last_put,         \* history: frame of the last completed put
    taken,            \* history: frames returned by frame_queue.get, in order
    discarded,        \* history: frames removed by the camera's get_nowait
    late_use,         \* history: calls made on the camera after its release
                      \* or on the recognizer after its close
    run,              \* history: last stable labels, consecutive repeats merged
    run_events,       \* history: events emitted during each entry of run
    after_stop,       \* history: what the workers did since running is False
    cycles,           \* history: inference cycles completed in SpecDispatch
    bark_keys,        \* BARK_KEYS of this run
    tasks,            \* the threads of _play_audio_async and _push_to_bark
    raw_eval          \* a recognizer result and its raw label, in SpecRaw

vars == <<running, frame_queue, active_state, window, window_size, cap_opened,
          recognizer_open, http_open, main_pc, cam_pc, cam_frame, cam_discard,
          inf_pc, inf_frame, inf_error, stable_now, dispatched, captured, last_put,
          taken, discarded, late_use, run, run_events, cam_ret, after_stop,
          cycles, bark_keys, tasks, raw_eval>>

----------------------------------------------------------------------------
(* Configuration, src/main.py lines 27-36.                                 *)

WINDOW_SIZE == 8

\* AREA_THRESHOLD = 0.15, in hundredths
AREA_THRESHOLD == 15

\* count >= WINDOW_SIZE * 0.75 is RatioDen * count >= RatioNum * WINDOW_SIZE
RatioNum == 3

RatioDen == 4

QUEUE_MAXSIZE == 1

GESTURE_MAP ==
    [c \in {"Closed_Fist", "Open_Palm", "Thumb_Up", "Victory"} |->
        CASE c = "Closed_Fist" -> "Sleeping"
          [] c = "Open_Palm" -> "Awake"
          [] c = "Thumb_Up" -> "Feeding"
          [] c = "Victory" -> "Diaper"]

----------------------------------------------------------------------------
(* Bounds of the model.                                                    *)

\* frames the camera delivers in Spec before every further read fails
MaxFrames == 4

\* SpecDebounce runs the worker with WINDOW_SIZE and with the window sizes
\* 1..MaxSmallWindow
MaxSmallWindow == 4

\* category names the recognizer reports in the model
Categories == {"None", "Closed_Fist", "Open_Palm"}

\* stable labels the history variable run keeps
RunDepth == 3

\* events the history variable run_events keeps for one entry of run
MaxSegmentEvents == 2

\* areas around the threshold
Areas == {AREA_THRESHOLD - 1, AREA_THRESHOLD, AREA_THRESHOLD + 1}

\* results of recognizer.recognize: gestures and hand_landmarks may be empty
RecognizerResults ==
    [gestures : {<<>>} \cup {<<c>> : c \in Categories},
     hand_landmarks : BOOLEAN,
     area : Areas]

----------------------------------------------------------------------------
(* The pure steps of one inference cycle, src/main.py lines 166-193.       *)

\* lines 166-176: raw_res of a recognizer result
RawRes(result) ==
    IF result.gestures # <<>> /\ result.hand_landmarks
    THEN IF result.area > AREA_THRESHOLD
         THEN result.gestures[1]
         ELSE "None"
    ELSE "None"

\* line 179 on a deque(maxlen=size): the oldest entry leaves a full deque
WindowAppend(w, x, size) ==
    IF Len(w) >= size
    THEN SubSeq(w, Len(w) - size + 2, Len(w)) \o <<x>>
    ELSE w \o <<x>>

\* Counter(w)[l]
Count(w, l) == Cardinality({i \in 1..Len(w) : w[i] = l})

\* position of l's first occurrence: Counter keeps insertion order
FirstIndex(w, l) == CHOOSE i \in 1..Len(w) : w[i] = l /\ \A j \in 1..(i - 1) : w[j] # l

\* line 181: Counter(w).most_common(1)[0], the first inserted among the most
\* frequent labels, with its count
MostCommon(w) ==
    LET labels == {w[i] : i \in 1..Len(w)}
        top == {l \in labels : \A m \in labels : Count(w, l) >= Count(w, m)}
        first == CHOOSE l \in top : \A m \in top : FirstIndex(w, l) <= FirstIndex(w, m)
    IN  <<first, Count(w, first)>>

\* the threshold test written as count > WINDOW_SIZE * 0.75
StableOf_StrictThreshold(w, size) ==
    LET mc == MostCommon(w)
    IN  IF RatioDen * mc[2] > RatioNum * size THEN mc[1] ELSE "None"

\* line 182: count >= WINDOW_SIZE * 0.75
StableOf(w, size) ==
    LET mc == MostCommon(w)
    IN  IF RatioDen * mc[2] >= RatioNum * size THEN mc[1] ELSE "None"

\* line 184 without its comparison with active_state
IsEntry_IgnoresActive(stable, active) == stable \in DOMAIN GESTURE_MAP

\* line 184 entering a category from "None" only
IsEntry_OnlyFromNone(stable, active) ==
    stable \in DOMAIN GESTURE_MAP /\ active = "None"

\* line 184: the branch that emits an event
IsEntry(stable, active) == stable \in DOMAIN GESTURE_MAP /\ stable # active

\* lines 184-193 without the elif branch of lines 192-193
NextActive_NoReset(stable, active) ==
    IF stable \in DOMAIN GESTURE_MAP /\ stable # active THEN stable ELSE active

\* lines 184-185 taking every stable label but "None" as the new state
NextActive_TakesAnyLabel(stable, active) ==
    IF stable # "None" /\ stable # active THEN stable
    ELSE IF stable = "None" THEN "None"
    ELSE active

\* lines 192-193 with else in place of elif stable_now == "None"
NextActive_ResetsOnUnknown(stable, active) ==
    IF stable \in DOMAIN GESTURE_MAP /\ stable # active THEN stable
    ELSE IF stable \in DOMAIN GESTURE_MAP THEN active
    ELSE "None"

\* lines 184-193: active_state after the decision
NextActive(stable, active) ==
    IF IsEntry(stable, active) THEN stable
    ELSE IF stable = "None" THEN "None"
    ELSE active

\* lines 186-191: the threads one event starts, with what they are given
EventThreads(stable) ==
    << [kind |-> "audio", category |-> stable, content |-> ""],
       [kind |-> "push", category |-> stable, content |-> GESTURE_MAP[stable]] >>

\* lines 184-191: the threads the decision starts
Dispatch(stable, active) ==
    IF IsEntry(stable, active) THEN EventThreads(stable) ELSE <<>>

----------------------------------------------------------------------------
(* History of the stable labels, kept for the properties only.             *)

LastN(s, n) == IF Len(s) > n THEN SubSeq(s, Len(s) - n + 1, Len(s)) ELSE s

Capped(s, x) == IF Len(s) < MaxSegmentEvents THEN s \o x ELSE s

\* categories of the events a decision emits
Emitted(threads) ==
    IF threads = <<>> THEN <<>> ELSE <<threads[1].category>>

RunAfter(stable) ==
    IF run # <<>> /\ run[Len(run)] = stable THEN run
    ELSE LastN(run \o <<stable>>, RunDepth)

RunEventsAfter(stable, threads) ==
    IF run # <<>> /\ run[Len(run)] = stable
    THEN [run_events EXCEPT ![Len(run_events)] = Capped(@, Emitted(threads))]
    ELSE LastN(run_events \o <<Emitted(threads)>>, RunDepth)

----------------------------------------------------------------------------
(* Initial state: after BabyMonitorApp.__init__, before run().             *)

InitWith(size) ==
    /\ running = TRUE
    /\ frame_queue = <<>>
    /\ active_state = "None"
    /\ window = <<>>
    /\ window_size = size
    /\ cap_opened = TRUE
    /\ recognizer_open = TRUE
    /\ http_open = TRUE
    /\ main_pc = "start_cam"
    /\ cam_pc = "idle"
    /\ cam_frame = 0
    /\ cam_discard = "skipped"
    /\ inf_pc = "idle"
    /\ inf_frame = 0
    /\ inf_error = FALSE
    /\ stable_now = "unset"
    /\ dispatched = <<>>
    /\ captured = 0
    /\ last_put = 0
    /\ taken = <<>>
    /\ discarded = {}
    /\ late_use = {}
    /\ run = <<>>
    /\ run_events = <<>>
    /\ cam_ret = FALSE
    /\ after_stop = [labels |-> 0, events |-> 0, puts |-> 0]
    /\ cycles = 0
    /\ tasks = <<>>

\* no result is being evaluated
NoEval == [result |-> "none", raw_res |-> "unset"]

\* line 21 with BARK_KEYS unset in the environment
Init == InitWith(WINDOW_SIZE) /\ bark_keys = <<>> /\ raw_eval = NoEval

----------------------------------------------------------------------------
(* The main thread: run() and cleanup(), src/main.py lines 195-214.        *)

\* variables no step of run(), cleanup() or the two workers changes
auxVars == <<cycles, bark_keys, tasks, raw_eval>>

mainVars == <<running, cap_opened, recognizer_open, http_open, main_pc>>
camVars == <<cam_pc, cam_frame, cam_ret, cam_discard, captured, last_put, discarded>>
infVars == <<active_state, window, inf_pc, inf_frame, inf_error, stable_now,
             dispatched, taken, run, run_events>>

\* line 208
MainStartCam ==
    /\ main_pc = "start_cam"
    /\ main_pc' = "start_inf"
    /\ cam_pc' = "loop"
    /\ UNCHANGED <<running, cap_opened, recognizer_open, http_open, frame_queue,
                   window_size, auxVars, late_use, after_stop, cam_frame, cam_ret,
                   cam_discard, captured, last_put, discarded, infVars>>

\* line 209
MainStartInf ==
    /\ main_pc = "start_inf"
    /\ main_pc' = "sleep"
    /\ inf_pc' = "loop"
    /\ UNCHANGED <<running, cap_opened, recognizer_open, http_open, frame_queue,
                   window_size, auxVars, late_use, after_stop, camVars, active_state,
                   window, inf_frame, inf_error, stable_now, dispatched, taken,
                   run, run_events>>

\* lines 210-214: KeyboardInterrupt during the sleep loop
MainInterrupt ==
    /\ main_pc = "sleep"
    /\ main_pc' = "set_running"
    /\ UNCHANGED <<running, cap_opened, recognizer_open, http_open, frame_queue,
                   window_size, auxVars, late_use, after_stop, camVars, infVars>>

\* line 197
CleanupSetRunning ==
    /\ main_pc = "set_running"
    /\ running' = FALSE
    /\ main_pc' = "close_http"
    /\ UNCHANGED <<cap_opened, recognizer_open, http_open, frame_queue,
                   window_size, auxVars, late_use, after_stop, camVars, infVars>>

\* line 199
CleanupCloseHttp ==
    /\ main_pc = "close_http"
    /\ http_open' = FALSE
    /\ main_pc' = "release_cap"
    /\ UNCHANGED <<running, cap_opened, recognizer_open, frame_queue,
                   window_size, auxVars, late_use, after_stop, camVars, infVars>>

\* lines 200-201
CleanupReleaseCap ==
    /\ main_pc = "release_cap"
    /\ cap_opened' = FALSE
    /\ main_pc' = "close_recognizer"
    /\ UNCHANGED <<running, recognizer_open, http_open, frame_queue,
                   window_size, auxVars, late_use, after_stop, camVars, infVars>>

\* lines 202-203
CleanupCloseRecognizer ==
    /\ main_pc = "close_recognizer"
    /\ recognizer_open' = FALSE
    /\ main_pc' = "return"
    /\ UNCHANGED <<running, cap_opened, http_open, frame_queue,
                   window_size, auxVars, late_use, after_stop, camVars, infVars>>

\* a worker position after its thread ended
Ended == {"done", "crashed", "killed"}

\* lines 204, 214, 218: cleanup and run return, the process exits and its
\* daemon threads (lines 208-209) stop wherever they are
MainExit ==
    /\ main_pc = "return"
    /\ main_pc' = "exited"
    /\ cam_pc' = IF cam_pc \in Ended THEN cam_pc ELSE "killed"
    /\ inf_pc' = IF inf_pc \in Ended THEN inf_pc ELSE "killed"
    /\ UNCHANGED <<running, cap_opened, recognizer_open, http_open, frame_queue,
                   window_size, auxVars, late_use, after_stop, cam_frame, cam_ret,
                   cam_discard, captured, last_put, discarded, active_state, window, inf_frame, inf_error, stable_now,
                   dispatched, taken, run, run_events>>

----------------------------------------------------------------------------
(* CamThread: _camera_worker, src/main.py lines 138-150.                   *)

camOthers == <<mainVars, window_size, auxVars, late_use, after_stop, infVars>>

\* line 141: the loop test
CamLoop ==
    /\ cam_pc = "loop"
    /\ cam_pc' = IF running THEN "read" ELSE "done"
    /\ UNCHANGED <<frame_queue, cam_frame, cam_ret, cam_discard, captured, last_put,
                   discarded, camOthers>>

\* lines 143-144: cap.read() delivers the next frame
CamReadOk ==
    /\ cam_pc = "read"
    /\ cap_opened
    /\ captured < MaxFrames
    /\ captured' = captured + 1
    /\ cam_frame' = captured + 1
    /\ cam_ret' = TRUE
    /\ cam_pc' = "empty"
    /\ UNCHANGED <<frame_queue, cam_discard, last_put, discarded, camOthers>>

\* lines 143-149 without the test of ret at line 144: the frame variable is
\* handed off after a failed read too
CamReadFail_HandsOff ==
    /\ cam_pc = "read"
    /\ cam_ret' = FALSE
    /\ cam_pc' = "empty"
    /\ late_use' = IF cap_opened THEN late_use ELSE late_use \cup {"cap.read"}
    /\ UNCHANGED <<frame_queue, cam_frame, cam_discard, captured, last_put,
                   discarded, mainVars, window_size, auxVars, after_stop, infVars>>

\* lines 143-144, 150: cap.read() returns ret = False (always so on a released
\* device); the cycle is skipped
CamReadFail ==
    /\ cam_pc = "read"
    /\ cam_ret' = FALSE
    /\ cam_pc' = "loop"
    /\ late_use' = IF cap_opened THEN late_use ELSE late_use \cup {"cap.read"}
    /\ UNCHANGED <<frame_queue, cam_frame, cam_discard, captured, last_put,
                   discarded, mainVars, window_size, auxVars, after_stop, infVars>>

\* lines 146-148 left out: the frame is put without discarding
CamEmpty_NeverDiscards ==
    /\ cam_pc = "empty"
    /\ cam_pc' = "put"
    /\ cam_discard' = "skipped"
    /\ UNCHANGED <<frame_queue, cam_frame, cam_ret, captured, last_put, discarded, camOthers>>

\* line 146: if not self.frame_queue.empty()
CamEmpty ==
    /\ cam_pc = "empty"
    /\ cam_pc' = IF frame_queue # <<>> THEN "get_nowait" ELSE "put"
    /\ cam_discard' = "skipped"
    /\ UNCHANGED <<frame_queue, cam_frame, cam_ret, captured, last_put, discarded, camOthers>>

\* lines 147-148: get_nowait, Empty is passed over
CamGetNowait ==
    /\ cam_pc = "get_nowait"
    /\ IF frame_queue # <<>>
       THEN /\ frame_queue' = Tail(frame_queue)
            /\ discarded' = discarded \cup {Head(frame_queue)}
            /\ cam_discard' = "discarded"
       ELSE /\ cam_discard' = "empty"
            /\ UNCHANGED <<frame_queue, discarded>>
    /\ cam_pc' = "put"
    /\ UNCHANGED <<cam_frame, cam_ret, captured, last_put, camOthers>>

\* lines 149-150: Queue.put blocks while the queue is full; then the sleep
CamPut ==
    /\ cam_pc = "put"
    /\ Len(frame_queue) < QUEUE_MAXSIZE
    /\ frame_queue' = Append(frame_queue, cam_frame)
    /\ last_put' = cam_frame
    /\ cam_pc' = "loop"
    /\ after_stop' = IF running THEN after_stop
                     ELSE [after_stop EXCEPT !.puts = @ + 1]
    /\ UNCHANGED <<cam_frame, cam_ret, cam_discard, captured, discarded, mainVars,
                   window_size, auxVars, late_use, infVars>>

CameraWorker ==
    CamLoop \/ CamReadOk \/ CamReadFail \/ CamEmpty \/ CamGetNowait \/ CamPut

----------------------------------------------------------------------------
(* AIThread: _inference_worker, src/main.py lines 152-193.                 *)

infOthers == <<mainVars, window_size, auxVars, late_use, after_stop, camVars>>

\* raw labels the recognizer's results give, lines 164-176
RawLabels == {RawRes(result) : result \in RecognizerResults}

\* lines 178-193 with the test of line 180 left out: a decision in every
\* cycle
CycleEffect_DecidesEarly(raw) ==
    LET w == WindowAppend(window, raw, window_size)
        stable == StableOf(w, window_size)
        threads == Dispatch(stable, active_state)
    IN  /\ window' = w
        /\ stable_now' = stable
        /\ active_state' = NextActive(stable, active_state)
        /\ dispatched' = threads
        /\ run' = RunAfter(stable)
        /\ run_events' = RunEventsAfter(stable, threads)

\* lines 178-193 for one raw label: window, stable label, decision
CycleEffect(raw) ==
    LET w == WindowAppend(window, raw, window_size)
    IN  /\ window' = w
        /\ IF Len(w) = window_size
           THEN LET stable == StableOf(w, window_size)
                    threads == Dispatch(stable, active_state)
                IN  /\ stable_now' = stable
                    /\ active_state' = NextActive(stable, active_state)
                    /\ dispatched' = threads
                    /\ run' = RunAfter(stable)
                    /\ run_events' = RunEventsAfter(stable, threads)
           ELSE /\ stable_now' = "unset"
                /\ dispatched' = <<>>
                /\ UNCHANGED <<active_state, run, run_events>>

\* line 155 as while True
InfLoop_IgnoresRunning ==
    /\ inf_pc = "loop"
    /\ inf_pc' = "get"
    /\ UNCHANGED <<frame_queue, active_state, window, inf_frame, inf_error,
                   stable_now, dispatched, taken, run, run_events, infOthers>>

\* line 155: the loop test
InfLoop ==
    /\ inf_pc = "loop"
    /\ inf_pc' = IF running THEN "get" ELSE "done"
    /\ UNCHANGED <<frame_queue, active_state, window, inf_frame, inf_error,
                   stable_now, dispatched, taken, run, run_events, infOthers>>

\* line 157 reading the waiting frame without removing it from the queue
InfGetFrame_LeavesFrame ==
    /\ inf_pc = "get"
    /\ frame_queue # <<>>
    /\ inf_frame' = Head(frame_queue)
    /\ taken' = Append(taken, Head(frame_queue))
    /\ inf_pc' = "recognize"
    /\ UNCHANGED <<frame_queue, active_state, window, inf_error, stable_now,
                   dispatched, run, run_events, infOthers>>

\* line 157: get returns the waiting frame
InfGetFrame ==
    /\ inf_pc = "get"
    /\ frame_queue # <<>>
    /\ inf_frame' = Head(frame_queue)
    /\ frame_queue' = Tail(frame_queue)
    /\ taken' = Append(taken, Head(frame_queue))
    /\ inf_pc' = "recognize"
    /\ UNCHANGED <<active_state, window, inf_error, stable_now, dispatched,
                   run, run_events, infOthers>>

\* line 157 as get() without a timeout: the worker waits for a frame
InfGetTimeout_WaitsForever ==
    /\ inf_pc = "get"
    /\ frame_queue = <<>>
    /\ UNCHANGED vars

\* lines 157-159: no frame within the timeout, Empty, continue
InfGetTimeout ==
    /\ inf_pc = "get"
    /\ frame_queue = <<>>
    /\ inf_pc' = "loop"
    /\ UNCHANGED <<frame_queue, active_state, window, inf_frame, inf_error,
                   stable_now, dispatched, taken, run, run_events, infOthers>>

\* lines 162-193: recognize returns and the cycle completes
InfRecognizeOk ==
    /\ inf_pc = "recognize"
    /\ recognizer_open
    /\ \E raw \in RawLabels : CycleEffect(raw)
    /\ inf_error' = FALSE
    /\ inf_pc' = "loop"
    /\ after_stop' = IF running THEN after_stop
                     ELSE [after_stop EXCEPT
                              !.labels = @ + 1,
                              !.events = @ + (IF dispatched' # <<>> THEN 1 ELSE 0)]
    /\ UNCHANGED <<frame_queue, inf_frame, taken, mainVars, window_size, auxVars,
                   late_use, camVars>>

\* line 164: recognize raises (always so on a closed recognizer); nothing in
\* _inference_worker catches it, the thread ends
InfRecognizeRaises ==
    /\ inf_pc = "recognize"
    /\ inf_error' = TRUE
    /\ inf_pc' = "crashed"
    /\ late_use' = IF recognizer_open THEN late_use
                   ELSE late_use \cup {"recognizer.recognize"}
    /\ UNCHANGED <<frame_queue, active_state, window, inf_frame, stable_now,
                   dispatched, taken, run, run_events, mainVars, window_size, auxVars,
                   after_stop, camVars>>

InferenceWorker ==
    InfLoop \/ InfGetFrame \/ InfGetTimeout \/ InfRecognizeOk \/ InfRecognizeRaises

MainThread ==
    \/ MainStartCam \/ MainStartInf \/ MainInterrupt
    \/ CleanupSetRunning \/ CleanupCloseHttp \/ CleanupReleaseCap
    \/ CleanupCloseRecognizer \/ MainExit

Next == MainThread \/ CameraWorker \/ InferenceWorker

Spec == Init /\ [][Next]_vars

\* the two worker threads are scheduled fairly; the main thread's steps (the
\* interrupt, cleanup, the exit) are not required to happen
SpecLive ==
    Init /\ [][Next]_vars /\ WF_vars(CameraWorker) /\ WF_vars(InferenceWorker)

----------------------------------------------------------------------------
(* The label stream alone: whole loop iterations of the two workers while  *)
(* running is true, for WINDOW_SIZE and the window sizes 1..MaxSmallWindow.  Frames are *)
(* not numbered here (each is frame 1) and the frame histories are not     *)
(* kept, so that the worker can run for any number of cycles.              *)

\* lines 141-150 as one step: a delivered frame replaces the waiting one
CameraCycle ==
    /\ cam_pc = "loop"
    /\ running
    /\ cap_opened
    /\ frame_queue' = <<1>>
    /\ UNCHANGED <<mainVars, window_size, auxVars, late_use, after_stop, camVars, infVars>>

\* lines 155-193 as one step: get a frame, recognize, decide
InferenceCycle ==
    /\ inf_pc = "loop"
    /\ running
    /\ frame_queue # <<>>
    /\ recognizer_open
    /\ frame_queue' = Tail(frame_queue)
    /\ inf_frame' = Head(frame_queue)
    /\ \E raw \in RawLabels : CycleEffect(raw)
    /\ inf_error' = FALSE
    /\ UNCHANGED <<inf_pc, taken, infOthers>>

\* lines 155-164 as one step: get a frame, recognize raises
InferenceCycleRaises ==
    /\ inf_pc = "loop"
    /\ running
    /\ frame_queue # <<>>
    /\ frame_queue' = Tail(frame_queue)
    /\ inf_frame' = Head(frame_queue)
    /\ inf_error' = TRUE
    /\ inf_pc' = "crashed"
    /\ UNCHANGED <<active_state, window, stable_now, dispatched, taken, run,
                   run_events, infOthers>>

WindowSizes == (1..MaxSmallWindow) \cup {WINDOW_SIZE}

InitDebounce ==
    /\ \E size \in WindowSizes : InitWith(size)
    /\ bark_keys = <<>>
    /\ raw_eval = NoEval

NextDebounce ==
    \/ MainStartCam \/ MainStartInf
    \/ CameraCycle \/ InferenceCycle \/ InferenceCycleRaises

SpecDebounce == InitDebounce /\ [][NextDebounce]_vars

----------------------------------------------------------------------------
(* Properties of the debounce decision, checked under SpecDebounce.        *)

KindCount(threads, kind) ==
    Cardinality({i \in 1..Len(threads) : threads[i].kind = kind})

\* an inference cycle that completes with a full window
FullCycle == InferenceCycle /\ Len(window') = window_size

\* C1: in a cycle with a full window whose stable label is a key of
\* GESTURE_MAP other than active_state, exactly one audio thread and one push
\* thread are started and active_state becomes that label; in a following
\* cycle whose stable label is still that key, no thread is started and
\* active_state does not change.
C1_EntryEmitsOneEvent ==
    [][FullCycle =>
        /\ (stable_now' \in DOMAIN GESTURE_MAP /\ stable_now' # active_state) =>
              /\ KindCount(dispatched', "audio") = 1
              /\ KindCount(dispatched', "push") = 1
              /\ Len(dispatched') = 2
              /\ active_state' = stable_now'
        /\ (stable_now' \in DOMAIN GESTURE_MAP /\ stable_now' = stable_now) =>
              /\ dispatched' = <<>>
              /\ active_state' = active_state
              /\ active_state = stable_now]_vars

\* the spec's scenario: the window is Closed_Fist x7, none x1, one event for
\* Closed_Fist was just emitted
C1_Witness ==
    /\ window_size = WINDOW_SIZE
    /\ window = <<"Closed_Fist", "Closed_Fist", "Closed_Fist", "Closed_Fist",
                  "Closed_Fist", "Closed_Fist", "Closed_Fist", "None">>
    /\ stable_now = "Closed_Fist"
    /\ active_state = "Closed_Fist"
    /\ Len(dispatched) = 2

\* C2: stable labels A, "None", A emit exactly two events, one at each entry
\* into A; stable labels A then directly B (both keys of GESTURE_MAP, no
\* stable "None" between) emit exactly one event for the change, carrying B.
C2_ReentryAndDirectChange ==
    /\ \A a \in DOMAIN GESTURE_MAP :
          (Len(run) >= 3 /\ LastN(run, 3) = <<a, "None", a>>)
              => LastN(run_events, 3) = << <<a>>, <<>>, <<a>> >>
    /\ \A a, b \in DOMAIN GESTURE_MAP :
          (Len(run) >= 2 /\ a # b /\ run[Len(run) - 1] = a /\ run[Len(run)] = b)
              => run_events[Len(run)] = <<b>>

\* Closed_Fist, none, Closed_Fist again with the program's window size
C2_Witness ==
    /\ window_size = WINDOW_SIZE
    /\ LastN(run, 3) = <<"Closed_Fist", "None", "Closed_Fist">>
    /\ LastN(run_events, 3) = << <<"Closed_Fist">>, <<>>, <<"Closed_Fist">> >>

\* a direct change from one key to another (it exists for window size 1 only)
C2_DirectChangeReached ==
    /\ Len(run) >= 2
    /\ run[Len(run) - 1] = "Closed_Fist"
    /\ run[Len(run)] = "Open_Palm"

\* ceil(0.75 * size)
ThresholdCount(size) == (RatioNum * size + RatioDen - 1) \div RatioDen

\* labels that occupy at least ceil(0.75 * size) entries of w
Dominant(w, size) ==
    {l \in {w[i] : i \in 1..Len(w)} :
        Cardinality({i \in 1..Len(w) : w[i] = l}) >= ThresholdCount(size)}

\* C3: the stable label of a full window is the label that occupies at least
\* ceil(0.75 * W) of its W entries when there is one, and "None" otherwise.
C3_StableIsThresholdMajority ==
    (stable_now # "unset" /\ Len(window) = window_size) =>
        IF Dominant(window, window_size) # {}
        THEN Dominant(window, window_size) = {stable_now}
        ELSE stable_now = "None"

\* the spec's scenario: Open_Palm x6, none x2 gives Open_Palm
C3_Witness ==
    /\ window_size = WINDOW_SIZE
    /\ window = <<"Open_Palm", "Open_Palm", "Open_Palm", "Open_Palm",
                  "Open_Palm", "Open_Palm", "None", "None">>
    /\ stable_now = "Open_Palm"

\* the spec's other scenario: Open_Palm x5, none x3 gives "None"
C3_BelowThresholdReached ==
    /\ window_size = WINDOW_SIZE
    /\ window = <<"Open_Palm", "Open_Palm", "Open_Palm", "Open_Palm",
                  "Open_Palm", "None", "None", "None">>
    /\ stable_now = "None"

\* C4: in a cycle with a full window whose stable label is "None",
\* active_state is set to "None" and no thread is started; threads are
\* started only on entry into a key of GESTURE_MAP.
C4_NoneResetsSilently ==
    [][FullCycle =>
        /\ stable_now' = "None" => (active_state' = "None" /\ dispatched' = <<>>)
        /\ dispatched' # <<>> =>
              (stable_now' \in DOMAIN GESTURE_MAP /\ stable_now' # active_state)]_vars

\* a return from Closed_Fist to none
C4_Witness ==
    /\ window_size = WINDOW_SIZE
    /\ Len(run) >= 2
    /\ run[Len(run) - 1] = "Closed_Fist"
    /\ run[Len(run)] = "None"
    /\ stable_now = "None"
    /\ active_state = "None"
    /\ dispatched = <<>>

----------------------------------------------------------------------------
(* Properties of the frame hand-off and of shutdown, checked under Spec.   *)

\* C5: whenever the camera worker is at its put, the queue has room, so put
\* does not block; this includes the cycles in which the inference worker took
\* the waiting frame between the emptiness test and get_nowait.
C5_PutNeverBlocks ==
    cam_pc = "put" => Len(frame_queue) < QUEUE_MAXSIZE

\* a hand-off completed although get_nowait found the queue already emptied
C5_Witness ==
    /\ cam_pc = "loop"
    /\ cam_discard = "empty"
    /\ frame_queue = <<cam_frame>>
    /\ last_put = cam_frame

\* C6: the queue holds at most one frame, the frame of the most recent
\* completed put; a frame replaced before it was taken is never returned by
\* get.
C6_ChannelHoldsLatestPut ==
    /\ Len(frame_queue) <= 1
    /\ frame_queue # <<>> => frame_queue = <<last_put>>
    /\ \A i \in 1..Len(taken) : taken[i] \notin discarded

\* two puts without a take between them, then a take returned the second frame
C6_Witness ==
    /\ taken # <<>>
    /\ taken[Len(taken)] - 1 \in discarded

\* C7: the frames the inference worker takes are in strictly increasing
\* capture order.
C7_TakenInCaptureOrder ==
    \A i, j \in 1..Len(taken) : i < j => taken[i] < taken[j]

\* two frames taken with a dropped frame between them
C7_Witness ==
    /\ Len(taken) >= 2
    /\ taken[2] > taken[1] + 1

\* C8: cleanup releases the camera and closes the recognizer only after both
\* workers left their loops, so that neither is used after its release.
C8_NoUseAfterRelease == late_use = {}

\* C9: once running is false, both workers eventually leave their loops,
\* whether or not a frame ever arrives.
C9_WorkersExitAfterStop ==
    (~running) ~> (cam_pc \in Ended /\ inf_pc \in Ended)

\* both workers returned from their loops though the camera delivered nothing
C9_Witness ==
    /\ ~running
    /\ captured = 0
    /\ cam_pc = "done"
    /\ inf_pc = "done"

\* C10: when recognize raises on an open recognizer, one "None" sample is
\* appended to the window and the inference worker goes on with its loop.
C10_RecognizeErrorIsNoneSample ==
    [][(inf_pc = "recognize" /\ recognizer_open /\ inf_error') =>
          /\ window' = WindowAppend(window, "None", window_size)
          /\ inf_pc' = "loop"]_vars


----------------------------------------------------------------------------
(* The raw label of one recognizer result, src/main.py lines 166-176.      *)

\* largest hand area drawn, in hundredths
MaxArea == 20

\* recognizer results with every area from 0 to MaxArea
RawInputs ==
    [gestures : {<<>>} \cup {<<c>> : c \in Categories},
     hand_landmarks : BOOLEAN,
     area : 0..MaxArea]

\* everything but the history and configuration of auxVars
pipelineVars == <<mainVars, frame_queue, window_size, late_use, after_stop,
                  camVars, infVars>>

InitRaw ==
    /\ InitWith(WINDOW_SIZE)
    /\ bark_keys = <<>>
    /\ raw_eval \in [result : RawInputs, raw_res : {"unset"}]

\* lines 166-176 applied to the drawn result
EvalRawRes ==
    /\ raw_eval.raw_res = "unset"
    /\ raw_eval' = [raw_eval EXCEPT !.raw_res = RawRes(raw_eval.result)]
    /\ UNCHANGED <<pipelineVars, cycles, bark_keys, tasks>>

SpecRaw == InitRaw /\ [][EvalRawRes]_vars

\* C11: the raw label is "None" when the recognizer reports no gesture or no
\* landmarks or the area is below AREA_THRESHOLD, and in every other case,
\* the area equal to AREA_THRESHOLD included, it is the reported category.
C11_ThresholdAreaPasses ==
    raw_eval.raw_res # "unset" =>
        LET r == raw_eval.result
        IN  raw_eval.raw_res =
                IF r.gestures = <<>> \/ ~r.hand_landmarks
                   \/ r.area < AREA_THRESHOLD
                THEN "None"
                ELSE r.gestures[1]


----------------------------------------------------------------------------
(* The threads of one event, src/main.py lines 86-136, from a running      *)
(* monitor whose window is one sample short of a stable "Closed_Fist".     *)

\* inference cycles SpecDispatch runs
MaxCycles == 2

\* entries of BARK_KEYS at most
MaxKeys == 3

\* device keys that occur in BARK_KEYS
Keys == {"k1", "k2"}

\* lines 20-21: the non-empty entries of the comma-separated BARK_KEYS, in
\* order, a repeated entry kept
KeyLists == UNION {[1..n -> Keys] : n \in 0..MaxKeys}

\* lines 179-182: the window after WINDOW_SIZE cycles, no label stable
WarmWindow ==
    <<"None", "None", "None", "Closed_Fist", "Closed_Fist", "Closed_Fist",
      "Closed_Fist", "Closed_Fist">>

\* run() sleeps at line 212, both workers are at their loop tests, the
\* window is WarmWindow; frames and histories count from this state
WarmState ==
    /\ running = TRUE
    /\ frame_queue = <<>>
    /\ active_state = "None"
    /\ window = WarmWindow
    /\ window_size = WINDOW_SIZE
    /\ cap_opened = TRUE
    /\ recognizer_open = TRUE
    /\ http_open = TRUE
    /\ main_pc = "sleep"
    /\ cam_pc = "loop"
    /\ cam_frame = 0
    /\ cam_ret = TRUE
    /\ cam_discard = "skipped"
    /\ inf_pc = "loop"
    /\ inf_frame = 0
    /\ inf_error = FALSE
    /\ stable_now = StableOf(WarmWindow, WINDOW_SIZE)
    /\ dispatched = <<>>
    /\ captured = 0
    /\ last_put = 0
    /\ taken = <<>>
    /\ discarded = {}
    /\ late_use = {}
    /\ run = <<StableOf(WarmWindow, WINDOW_SIZE)>>
    /\ run_events = << <<>> >>
    /\ after_stop = [labels |-> 0, events |-> 0, puts |-> 0]
    /\ cycles = 0
    /\ tasks = <<>>
    /\ raw_eval = NoEval

InitDispatch == WarmState /\ bark_keys \in KeyLists

\* lines 104, 136: the started threads, each at the top of its function
NewTasks(threads, cycle) ==
    [i \in 1..Len(threads) |->
        [thread |-> threads[i], born |-> cycle, pc |-> "start", at |-> 1,
         log |-> <<>>]]

\* lines 104, 136 with the audio thread joined before the worker goes on
Awaited_JoinsAudio(ts) ==
    {i \in 1..Len(ts) : ts[i].thread.kind = "audio" /\ ts[i].pc # "done"}

\* lines 104, 136: threads the inference worker waits for: it joins none
Awaited(ts) == {}

\* lines 155-193 as one step, the threads of lines 190-191 started
DispatchCycle ==
    /\ inf_pc = "loop"
    /\ running
    /\ frame_queue # <<>>
    /\ recognizer_open
    /\ cycles < MaxCycles
    /\ Awaited(tasks) = {}
    /\ frame_queue' = Tail(frame_queue)
    /\ inf_frame' = Head(frame_queue)
    /\ \E raw \in RawLabels : CycleEffect(raw)
    /\ inf_error' = FALSE
    /\ cycles' = cycles + 1
    /\ tasks' = tasks \o NewTasks(dispatched', cycles + 1)
    /\ UNCHANGED <<inf_pc, taken, mainVars, window_size, late_use, after_stop,
                   camVars, bark_keys, raw_eval>>

taskOthers == <<pipelineVars, cycles, bark_keys, raw_eval>>

\* lines 89-100: the audio file is missing, or the platform has no player,
\* and _play returns; or the player is started and _play waits for it
AudioCheck(i) ==
    /\ tasks[i].thread.kind = "audio"
    /\ tasks[i].pc = "start"
    /\ \E way \in {"no_file", "no_player", "player"} :
          tasks' = [tasks EXCEPT ![i] =
                       IF way = "player"
                       THEN [@ EXCEPT !.pc = "playing"]
                       ELSE [@ EXCEPT !.pc = "done", !.log = <<way>>]]
    /\ UNCHANGED taskOthers

\* lines 95-102: subprocess.run returns, or raises and the error is logged
AudioEnds(i) ==
    /\ tasks[i].thread.kind = "audio"
    /\ tasks[i].pc = "playing"
    /\ \E outcome \in {"played", "failed"} :
          tasks' = [tasks EXCEPT ![i] = [@ EXCEPT !.pc = "done",
                                                 !.log = <<outcome>>]]
    /\ UNCHANGED taskOthers

\* lines 109-113: without keys _send returns
PushStart(i) ==
    /\ tasks[i].thread.kind = "push"
    /\ tasks[i].pc = "start"
    /\ tasks' = [tasks EXCEPT ![i].pc =
                    IF bark_keys = <<>> THEN "done" ELSE "send"]
    /\ UNCHANGED taskOthers

\* answers to one request: status 200, another status, an exception of
\* http_client.get
Outcomes == {"200", "status", "exception"}

\* lines 115-134 with the try around the loop: an exception ends _send
PushRequest_StopsAtException(i) ==
    /\ tasks[i].thread.kind = "push"
    /\ tasks[i].pc = "send"
    /\ \E outcome \in Outcomes :
          LET t == tasks[i]
              entry == [key |-> bark_keys[t.at], outcome |-> outcome]
          IN  tasks' = [tasks EXCEPT ![i] =
                  [@ EXCEPT !.log = Append(t.log, entry),
                            !.at = t.at + 1,
                            !.pc = IF t.at = Len(bark_keys)
                                      \/ outcome = "exception"
                                   THEN "done" ELSE "send"]]
    /\ UNCHANGED taskOthers

\* lines 115-134 repeating a request that did not return status 200
PushRequest_RetriesFailed(i) ==
    /\ tasks[i].thread.kind = "push"
    /\ tasks[i].pc = "send"
    /\ \E outcome \in Outcomes :
          LET t == tasks[i]
              entry == [key |-> bark_keys[t.at], outcome |-> outcome]
              at == IF outcome = "200" THEN t.at + 1 ELSE t.at
          IN  tasks' = [tasks EXCEPT ![i] =
                  [@ EXCEPT !.log = Append(t.log, entry),
                            !.at = at,
                            !.pc = IF at > Len(bark_keys)
                                   THEN "done" ELSE "send"]]
    /\ UNCHANGED taskOthers

\* lines 115-134: one pass of the loop over BARK_KEYS; whatever the answer,
\* it is logged and the loop goes on
PushRequest(i) ==
    /\ tasks[i].thread.kind = "push"
    /\ tasks[i].pc = "send"
    /\ \E outcome \in Outcomes :
          LET t == tasks[i]
              entry == [key |-> bark_keys[t.at], outcome |-> outcome]
          IN  tasks' = [tasks EXCEPT ![i] =
                  [@ EXCEPT !.log = Append(t.log, entry),
                            !.at = t.at + 1,
                            !.pc = IF t.at = Len(bark_keys)
                                   THEN "done" ELSE "send"]]
    /\ UNCHANGED taskOthers

TaskStep(i) == AudioCheck(i) \/ AudioEnds(i) \/ PushStart(i) \/ PushRequest(i)

NextDispatch ==
    \/ CameraCycle
    \/ DispatchCycle
    \/ \E i \in DOMAIN tasks : AudioCheck(i)
    \/ \E i \in DOMAIN tasks : AudioEnds(i)
    \/ \E i \in DOMAIN tasks : PushStart(i)
    \/ \E i \in DOMAIN tasks : PushRequest(i)

SpecDispatch == InitDispatch /\ [][NextDispatch]_vars

\* the same threads with two recipients configured
InitAsync == WarmState /\ bark_keys = <<"k1", "k2">>

SpecAsync == InitAsync /\ [][NextDispatch]_vars

----------------------------------------------------------------------------
(* Properties of the event threads, checked under SpecDispatch and, for   *)
(* what the threads wait for, under SpecAsync.                             *)

PushTasks == {i \in DOMAIN tasks : tasks[i].thread.kind = "push"}

AudioTasks == {i \in DOMAIN tasks : tasks[i].thread.kind = "audio"}

FailedRequests(t) ==
    {j \in 1..Len(t.log) : t.log[j].outcome # "200"}

\* C12: whatever BARK_KEYS is and whichever requests fail (another status
\* than 200, or an exception), a push thread that has ended has sent one
\* request to every entry of BARK_KEYS, in order; and the inference worker is
\* in its loop, with no error, while requests have failed.
C12_FailureSkipsNoRecipient ==
    /\ \A i \in PushTasks :
          tasks[i].pc = "done" =>
              /\ Len(tasks[i].log) = Len(bark_keys)
              /\ \A j \in 1..Len(bark_keys) :
                    tasks[i].log[j].key = bark_keys[j]
    /\ (\E i \in PushTasks : FailedRequests(tasks[i]) # {}) =>
          (inf_pc = "loop" /\ ~inf_error)

\* three recipients, the second request raised, the first and the third
\* were answered with status 200
C12_Witness ==
    \E i \in PushTasks :
        /\ tasks[i].pc = "done"
        /\ Len(bark_keys) = 3
        /\ tasks[i].log[1].outcome = "200"
        /\ tasks[i].log[2].outcome = "exception"
        /\ tasks[i].log[3].outcome = "200"

\* C13: the audio and the push of an event are threads of their own.  While a
\* thread is unfinished, blocked or failed, the inference worker at its loop
\* test with a frame waiting can run its next cycle, and every unfinished
\* thread can take its next step whatever the state of the other threads.
C13_ThreadsDoNotWaitForEachOther ==
    /\ (/\ inf_pc = "loop"
        /\ running
        /\ frame_queue # <<>>
        /\ recognizer_open
        /\ cycles < MaxCycles) => ENABLED DispatchCycle
    /\ \A i \in DOMAIN tasks : tasks[i].pc # "done" => ENABLED TaskStep(i)

\* the player of an event has not returned, the push of the same event has
\* sent all its requests and the worker has completed a later cycle
C13_Witness ==
    \E i \in AudioTasks :
        /\ tasks[i].pc = "playing"
        /\ tasks[i + 1].thread.kind = "push"
        /\ tasks[i + 1].born = tasks[i].born
        /\ tasks[i + 1].pc = "done"
        /\ tasks[i + 1].log # <<>>
        /\ cycles > tasks[i].born

\* the push of an event has not started, the audio thread of the same event
\* has ended with a failed player
C13_PushPendingAudioFailed ==
    \E i \in AudioTasks :
        /\ tasks[i].log = <<"failed">>
        /\ tasks[i + 1].pc = "start"

\* C17 as stated: for every event and every key in BARK_KEYS, at most one
\* request is sent for that event and key.
C17_OneRequestPerKey ==
    \A i \in PushTasks : \A k \in Keys :
        Cardinality({j \in 1..Len(tasks[i].log) : tasks[i].log[j].key = k}) <= 1

\* C17: for every event and every entry of BARK_KEYS, at most one request is
\* sent: the requests of an event are a prefix of BARK_KEYS, entry by entry,
\* there is one push thread per event, and a failed request is not repeated.
C17_OneRequestPerEntry ==
    /\ \A i \in PushTasks :
          /\ Len(tasks[i].log) <= Len(bark_keys)
          /\ \A j \in 1..Len(tasks[i].log) :
                tasks[i].log[j].key = bark_keys[j]
    /\ \A i, j \in PushTasks : tasks[i].born = tasks[j].born => i = j

\* a key listed twice: the first request failed, the thread has ended and
\* the key was requested once per entry
C17_Witness ==
    \E i \in PushTasks :
        /\ tasks[i].pc = "done"
        /\ Len(bark_keys) = 2
        /\ bark_keys[1] = bark_keys[2]
        /\ tasks[i].log[1].outcome = "status"
        /\ Len(tasks[i].log) = 2


----------------------------------------------------------------------------
(* cleanup() called on the constructed object before run(), src/main.py    *)
(* lines 195-204: no thread exists yet, so its four statements are one     *)
(* step.                                                                    *)

CleanupBeforeRun ==
    /\ main_pc = "start_cam"
    /\ running' = FALSE
    /\ http_open' = FALSE
    /\ cap_opened' = FALSE
    /\ recognizer_open' = FALSE
    /\ UNCHANGED <<main_pc, frame_queue, window_size, auxVars, late_use,
                   after_stop, camVars, infVars>>

NextApi == Next \/ CleanupBeforeRun

SpecApi == Init /\ [][NextApi]_vars

\* C14 as stated: while no worker is started, a call of cleanup changes
\* nothing: running and the three resources are as __init__ left them.
C14_EarlyStopIsNoOp ==
    (cam_pc = "idle" /\ inf_pc = "idle") =>
        /\ running
        /\ cap_opened
        /\ recognizer_open
        /\ http_open
        /\ frame_queue = <<>>
        /\ window = <<>>
        /\ active_state = "None"

----------------------------------------------------------------------------
(* The first decision, checked under SpecDebounce.                         *)

\* C15: while the window holds fewer than window_size samples no decision
\* has been made: no stable label, no event, active_state "None"; once it
\* holds window_size samples a stable label has been computed.
C15_NoDecisionBeforeWindowFull ==
    /\ Len(window) < window_size =>
          /\ stable_now = "unset"
          /\ dispatched = <<>>
          /\ active_state = "None"
          /\ run = <<>>
          /\ run_events = <<>>
    /\ Len(window) = window_size => stable_now # "unset"

\* WINDOW_SIZE - 1 samples of one recognized category and still no event
C15_Witness ==
    /\ window_size = WINDOW_SIZE
    /\ Len(window) = WINDOW_SIZE - 1
    /\ Count(window, "Closed_Fist") = WINDOW_SIZE - 1
    /\ dispatched = <<>>
    /\ active_state = "None"

----------------------------------------------------------------------------
(* A failed capture, checked under Spec.                                   *)

\* C16: the step of the camera worker in which cap.read() fails takes the
\* worker back to its loop test and leaves the frame queue, the waiting
\* frame included, as it is; the worker is in its hand-off only with a
\* successfully read frame, the latest one.
C16_FailedReadSkipsCycle ==
    [][/\ (cam_pc = "read" /\ cam_pc' \in {"loop", "empty"} /\ ~cam_ret') =>
            /\ cam_pc' = "loop"
            /\ UNCHANGED <<frame_queue, discarded, last_put, cam_frame, captured>>
       /\ cam_pc' \in {"empty", "get_nowait", "put"} =>
            (cam_ret' /\ cam_frame' = captured')]_vars

\* a read has failed while the worker runs on an open camera, and the frame
\* put before is still waiting
C16_Witness ==
    /\ cam_pc = "loop"
    /\ ~cam_ret
    /\ running
    /\ cap_opened
    /\ frame_queue = <<last_put>>
    /\ last_put > 0

----------------------------------------------------------------------------
(* Categories outside GESTURE_MAP: the label stream of SpecDebounce with   *)
(* the recognizer reporting "Pointing_Up" in place of "Open_Palm".         *)

OtherCategories == {"None", "Closed_Fist", "Pointing_Up"}

\* raw labels of results with these categories, lines 164-176
OtherRawLabels ==
    {RawRes(result) :
        result \in [gestures : {<<>>} \cup {<<c>> : c \in OtherCategories},
                    hand_landmarks : BOOLEAN,
                    area : Areas]}

\* lines 155-193 as one step, as InferenceCycle
InferenceCycleOther ==
    /\ inf_pc = "loop"
    /\ running
    /\ frame_queue # <<>>
    /\ recognizer_open
    /\ frame_queue' = Tail(frame_queue)
    /\ inf_frame' = Head(frame_queue)
    /\ \E raw \in OtherRawLabels : CycleEffect(raw)
    /\ inf_error' = FALSE
    /\ UNCHANGED <<inf_pc, taken, infOthers>>

NextUnrecognized ==
    \/ MainStartCam \/ MainStartInf
    \/ CameraCycle \/ InferenceCycleOther \/ InferenceCycleRaises

SpecUnrecognized == InitDebounce /\ [][NextUnrecognized]_vars

Unrecognized == OtherCategories \ (DOMAIN GESTURE_MAP \cup {"None"})

\* C18: active_state is "None" or a key of GESTURE_MAP, also when the
\* recognizer reports categories outside GESTURE_MAP, and the threads of an
\* event carry the category active_state holds after the cycle that started
\* them.
C18_ActiveStateIsNoneOrMapped ==
    /\ active_state \in DOMAIN GESTURE_MAP \cup {"None"}
    /\ \A i \in 1..Len(dispatched) :
          /\ dispatched[i].category = active_state
          /\ dispatched[i].content \in {"", GESTURE_MAP[active_state]}

\* with WINDOW_SIZE: an unrecognized category was stable, and later an event
\* was emitted
C18_Witness ==
    /\ window_size = WINDOW_SIZE
    /\ \E i \in 1..Len(run) : run[i] \in Unrecognized
    /\ dispatched # <<>>

\* C19: a stable label outside GESTURE_MAP other than "None" starts no
\* thread and leaves active_state as it was; in a run of stable labels a, x,
\* a with a in GESTURE_MAP and x outside, neither x nor the second a emits
\* an event.
C19_UnrecognizedChangesNothing ==
    /\ (run # <<>> /\ run[Len(run)] \in Unrecognized) =>
          /\ run_events[Len(run)] = <<>>
          /\ dispatched = <<>>
          /\ active_state =
                IF Len(run) >= 2 /\ run[Len(run) - 1] \in DOMAIN GESTURE_MAP
                THEN run[Len(run) - 1]
                ELSE "None"
    /\ \A a \in DOMAIN GESTURE_MAP : \A x \in Unrecognized :
          LastN(run, 3) = <<a, x, a>> =>
              /\ LastN(run_events, 3)[2] = <<>>
              /\ LastN(run_events, 3)[3] = <<>>
              /\ active_state = a

\* stable labels "Closed_Fist", "Pointing_Up", "Closed_Fist": one event
C19_Witness ==
    /\ run = <<"Closed_Fist", "Pointing_Up", "Closed_Fist">>
    /\ Len(run_events[1]) = 1
    /\ run_events[2] = <<>>
    /\ run_events[3] = <<>>

\* with WINDOW_SIZE: an unrecognized category is stable
C19_StableUnrecognizedReached ==
    /\ window_size = WINDOW_SIZE
    /\ stable_now \in Unrecognized
    /\ Len(run) >= 2

----------------------------------------------------------------------------
(* Shutdown of a running monitor: the threads of Spec from WarmState.      *)

InitWarm == WarmState /\ bark_keys = <<>>

NextWarm ==
    \/ MainInterrupt
    \/ CleanupSetRunning \/ CleanupCloseHttp \/ CleanupReleaseCap
    \/ CleanupCloseRecognizer \/ MainExit
    \/ CameraWorker
    \/ InferenceWorker

SpecWarm == InitWarm /\ [][NextWarm]_vars

\* C20: after running was set to False the inference worker appends at most
\* one more raw label and emits at most one more event, and the camera
\* worker performs at most one more put.
C20_AtMostOneCycleAfterStop ==
    /\ after_stop.labels <= 1
    /\ after_stop.events <= 1
    /\ after_stop.puts <= 1

\* after the stop: one put, one label appended, one event
C20_Witness ==
    /\ ~running
    /\ after_stop = [labels |-> 1, events |-> 1, puts |-> 1]

============================================================================
